---------------------------- MODULE Spec2Model ----------------------------
(***************************************************************************)
(* gridfs-stream: the Grid facade (lib/index.js) and the write and read    *)
(* sessions it hands out.                                                  *)
(*                                                                         *)
(* Three specifications share this module:                                 *)
(*   SpecCache   Grid.prototype.setCacheControl on one request             *)
(*   SpecGrid    collection / files / find / findOne / remove / exist      *)
(*   SpecStream  createWriteStream / createReadStream sessions             *)
(***************************************************************************)
EXTENDS Integers, Sequences, FiniteSets, TLC

VARIABLES
  \* setCacheControl(metadata, request, response) and what it returned
  metadata, request, response, priorHeaders, result,
  \* the Grid object (curCol, _col), the database behind it, the last call
  curCol, _col, db, lastCall,
  \* one write session, one read session and the chunk store
  ws, rs, chunks, files

cacheVars  == <<metadata, request, response, priorHeaders, result>>
gridVars   == <<curCol, _col, db, lastCall>>
streamVars == <<ws, rs, chunks, files>>
vars       == <<cacheVars, gridVars, streamVars>>

(***************************************************************************)
(* JavaScript values.  A value is a tuple whose head is its type; a string *)
(* is the tuple of its symbols (a symbol stands for a run of characters    *)
(* that no operation of the program cuts).                                 *)
(***************************************************************************)
Undefined == <<"undefined">>
False     == <<"boolean", "false">>
Str(text) == <<"string">> \o text
Text(v)   == Tail(v)
Date(ms)  == <<"Date", ms>>

\* ToBoolean: undefined, false and the empty string are falsy; a non-empty
\* string and every object (a Date, an ObjectID) are truthy.
Truthy(v) ==
  CASE v[1] = "undefined" -> FALSE
    [] v[1] = "boolean"   -> v[2] = "true"
    [] v[1] = "string"    -> Len(v) > 1
    [] OTHER              -> TRUE

\* a || b
Or(a, b) == IF Truthy(a) THEN a ELSE b

(***************************************************************************)
(* setCacheControl                                                         *)
(***************************************************************************)
MaxDirectives == 2

Directives    == {"no-cache", "private", "max-age=0"}
ETags         == {"abc123", "def456"}
UploadDates   == {1000, 1999, 3723004}
ContentTypes  == {"text/plain"}
RequestHeaders  == {"cache-control", "if-none-match"}
ResponseHeaders == {"Pragma", "Accept-Ranges", "Cache-Control", "ETag",
                    "Last-Modified", "Content-Type"}

\* directives joined the way a header line lists them: "a, b, c"
RECURSIVE JoinDirectives(_)
JoinDirectives(ds) ==
  IF Len(ds) = 0 THEN <<>>
  ELSE IF Len(ds) = 1 THEN <<ds[1]>>
  ELSE <<ds[1], ",", " ">> \o JoinDirectives(Tail(ds))

DirectiveLists == UNION {[1..n -> Directives] : n \in 1..MaxDirectives}

\* String.prototype.split(', ') on a text
RECURSIVE SplitCommaSpace(_)
SplitCommaSpace(text) ==
  LET hits == {i \in 1..(Len(text) - 1) : text[i] = "," /\ text[i + 1] = " "}
  IN IF hits = {} THEN <<text>>
     ELSE LET i == CHOOSE k \in hits : \A j \in hits : k <= j
          IN <<SubSeq(text, 1, i - 1)>>
               \o SplitCommaSpace(SubSeq(text, i + 2, Len(text)))

\* Array.prototype.indexOf: the first index (from 0) or -1
IndexOf(arr, x) ==
  LET hits == {i \in 1..Len(arr) : arr[i] = x}
  IN IF hits = {} THEN -1
     ELSE (CHOOSE k \in hits : \A j \in hits : k <= j) - 1

Pad2(n) == IF n < 10 THEN "0" \o ToString(n) ELSE ToString(n)

\* Date.prototype.toUTCString for an instant of 1 January 1970:
\* "Thu, 01 Jan 1970 hh:mm:ss GMT", the milliseconds dropped
toUTCString(date) ==
  LET s == date[2] \div 1000
  IN Str(<<"Thu,", "01", "Jan", "1970",
           Pad2(s \div 3600) \o ":" \o Pad2((s \div 60) % 60) \o ":" \o Pad2(s % 60),
           "GMT">>)

checkForCacheFromRequestNoPrivate(req, match) ==
  LET cc    == req.headers["cache-control"]
      inm   == req.headers["if-none-match"]
      cache == IF Truthy(cc) THEN SplitCommaSpace(Text(cc)) ELSE <<>>
  IN \/ ~Truthy(cc)
     \/ IndexOf(cache, <<"no-cache">>) # -1
     \/ (Truthy(inm) /\ inm # match)

checkForCacheFromRequestEtagFirst(req, match) ==
  LET cc    == req.headers["cache-control"]
      inm   == req.headers["if-none-match"]
      cache == IF Truthy(cc) THEN SplitCommaSpace(Text(cc)) ELSE <<>>
  IN IF Truthy(inm) THEN inm # match
     ELSE \/ ~Truthy(cc)
          \/ IndexOf(cache, <<"no-cache">>) # -1
          \/ IndexOf(cache, <<"private">>) # -1

\* Grid.prototype._checkForCacheFromRequest
checkForCacheFromRequest(req, match) ==
  LET cc    == req.headers["cache-control"]
      inm   == req.headers["if-none-match"]
      cache == IF Truthy(cc) THEN SplitCommaSpace(Text(cc)) ELSE <<>>
  IN \/ ~Truthy(cc)
     \/ IndexOf(cache, <<"no-cache">>) # -1
     \/ IndexOf(cache, <<"private">>) # -1
     \/ (Truthy(inm) /\ inm # match)

Pending      == [kind |-> "pending", status |-> 0, message |-> ""]
Return(code) == [kind |-> "return", status |-> code, message |-> ""]
Throw(msg)   == [kind |-> "throw", status |-> 0, message |-> msg]

\* response.set({...}) / response.setHeader(name, value)
SetHeaders(headers, new) ==
  [h \in ResponseHeaders |-> IF h \in DOMAIN new THEN new[h] ELSE headers[h]]

CacheHeadersRawDate(md) ==
  [h \in {"Pragma", "Accept-Ranges", "Cache-Control", "ETag", "Last-Modified"} |->
     CASE h = "Pragma"        -> Str(<<"public">>)
       [] h = "Accept-Ranges" -> Str(<<"bytes">>)
       [] h = "Cache-Control" -> Str(<<"public", ",", " ", "max-age=0">>)
       [] h = "ETag"          -> md.md5
       [] h = "Last-Modified" -> md.uploadDate]

\* the object literal handed to response.set
CacheHeaders(md) ==
  [h \in {"Pragma", "Accept-Ranges", "Cache-Control", "ETag", "Last-Modified"} |->
     CASE h = "Pragma"        -> Str(<<"public">>)
       [] h = "Accept-Ranges" -> Str(<<"bytes">>)
       [] h = "Cache-Control" -> Str(<<"public", ",", " ", "max-age=0">>)
       [] h = "ETag"          -> md.md5
       [] h = "Last-Modified" -> toUTCString(md.uploadDate)]

MetadataInputs ==
  [present : BOOLEAN,
   md5 : {Undefined} \cup {Str(<<e>>) : e \in ETags},
   uploadDate : {Undefined} \cup {Date(ms) : ms \in UploadDates},
   contentType : {Undefined} \cup {Str(<<c>>) : c \in ContentTypes}]

RequestInputs ==
  [present : BOOLEAN,
   headers :
          {[h \in RequestHeaders |-> IF h = "cache-control" THEN cc ELSE inm] :
             cc \in {Undefined} \cup {Str(JoinDirectives(ds)) : ds \in DirectiveLists},
             inm \in {Undefined} \cup {Str(<<e>>) : e \in ETags}}]

ResponseInputs ==
  [present : BOOLEAN,
   headers : {[h \in ResponseHeaders |-> IF h = "Content-Type" THEN ct ELSE Undefined] :
                ct \in {Undefined, Str(<<"text/html">>)}}]

\* an argument that is missing carries no fields worth telling apart
Canonical(arg, blank) == arg.present \/ arg = blank

NoMetadata == [present |-> FALSE, md5 |-> Undefined, uploadDate |-> Undefined,
               contentType |-> Undefined]
NoRequest  == [present |-> FALSE, headers |-> [h \in RequestHeaders |-> Undefined]]
NoResponse == [present |-> FALSE, headers |-> [h \in ResponseHeaders |-> Undefined]]

CacheInit ==
  /\ metadata \in {m \in MetadataInputs : Canonical(m, NoMetadata)}
  /\ request \in {r \in RequestInputs : Canonical(r, NoRequest)}
  /\ response \in {r \in ResponseInputs : Canonical(r, NoResponse)}
  /\ priorHeaders = response.headers
  /\ result = Pending

CacheIdle ==
  /\ metadata = NoMetadata
  /\ request = NoRequest
  /\ response = NoResponse
  /\ priorHeaders = NoResponse.headers
  /\ result = Pending

setCacheControlSetsFirst ==
  /\ result.kind = "pending"
  /\ IF ~metadata.present \/ ~request.present \/ ~response.present
     THEN /\ result' = Throw("Grid.setCacheControl(metadata, request, response)")
          /\ UNCHANGED response
     ELSE LET set == SetHeaders(response.headers,
                       [h \in {"Pragma"} |-> Str(<<"public">>)])
          IN IF \/ ~Truthy(metadata.md5)
                \/ ~Truthy(metadata.uploadDate)
                \/ ~Truthy(metadata.contentType)
             THEN /\ result' = Throw("metadata should have md5, uploadDate and contentType members")
                  /\ response' = [response EXCEPT !.headers = set]
             ELSE LET all == SetHeaders(response.headers, CacheHeaders(metadata))
                  IN IF checkForCacheFromRequest(request, metadata.md5)
                     THEN /\ response' = [response EXCEPT !.headers =
                               SetHeaders(all, [h \in {"Content-Type"} |-> metadata.contentType])]
                          /\ result' = Return(200)
                     ELSE /\ response' = [response EXCEPT !.headers = all]
                          /\ result' = Return(304)
  /\ UNCHANGED <<metadata, request, priorHeaders, gridVars, streamVars>>

\* Grid.prototype.setCacheControl
setCacheControl ==
  /\ result.kind = "pending"
  /\ IF ~metadata.present \/ ~request.present \/ ~response.present
     THEN /\ result' = Throw("Grid.setCacheControl(metadata, request, response)")
          /\ UNCHANGED response
     ELSE IF \/ ~Truthy(metadata.md5)
             \/ ~Truthy(metadata.uploadDate)
             \/ ~Truthy(metadata.contentType)
     THEN /\ result' = Throw("metadata should have md5, uploadDate and contentType members")
          /\ UNCHANGED response
     ELSE LET set == SetHeaders(response.headers, CacheHeaders(metadata))
          IN IF checkForCacheFromRequest(request, metadata.md5)
             THEN /\ response' = [response EXCEPT !.headers =
                       SetHeaders(set, [h \in {"Content-Type"} |-> metadata.contentType])]
                  /\ result' = Return(200)
             ELSE /\ response' = [response EXCEPT !.headers = set]
                  /\ result' = Return(304)
  /\ UNCHANGED <<metadata, request, priorHeaders, gridVars, streamVars>>

(***************************************************************************)
(* The Grid object: curCol, _col, and the calls that query the database    *)
(***************************************************************************)
NumDocs == 2

Roots      == {"fs", "alt"}
OptionKeys == {"_id", "filename", "root"}
Absent     == <<"absent">>

\* mongo.GridStore.DEFAULT_ROOT_COLLECTION
DEFAULT_ROOT_COLLECTION == Str(<<"fs">>)

\* the text of a 24 hex digit string, one per document and one to spare
HexText(i) == <<"hex24:" \o ToString(i)>>
HexTexts   == {HexText(i) : i \in 1..(NumDocs + 1)}
ObjectID(text) == <<"ObjectID">> \o text

\* new mongo.ObjectID(x) throws unless x is an ObjectID or a string of 24 hex
\* digits
ObjectIDThrows(x) ==
  ~(x[1] = "ObjectID" \/ (x[1] = "string" /\ Text(x) \in HexTexts))

\* Grid.prototype.tryParseObjectId
tryParseObjectId(x) == IF ObjectIDThrows(x) THEN False ELSE ObjectID(Tail(x))

\* name + '.files'
FilesName(root) == Text(root) \o <<".files">>
\* db.collection(name) / mongo.Collection(db, name): a handle on that collection
Collection(name) == <<"Collection">> \o name
CollectionNames == {FilesName(Str(<<r>>)) : r \in Roots}

\* options[k], undefined when options has no such member
Get(options, k) == IF k \in DOMAIN options THEN options[k] ELSE Undefined

Doc(i) ==
  [k \in {"_id", "filename", "uploadDate"} |->
     CASE k = "_id"        -> ObjectID(HexText(i))
       [] k = "filename"   -> Str(<<IF i % 3 = 0 THEN "b.txt" ELSE "a.txt">>)
       [] k = "uploadDate" -> Date(i * 1000)]

\* the documents of a collection, in the order the store returns them
StoreOrders ==
  {o \in UNION {[1..n -> 1..NumDocs] : n \in 0..NumDocs} :
     \A a, b \in DOMAIN o : a # b => o[a] # o[b]}

Matches(doc, criteria) ==
  \A k \in DOMAIN criteria : k \in DOMAIN doc /\ doc[k] = criteria[k]

\* collection.find(criteria): a cursor over the matching documents
Cursor(name, criteria) == SelectSeq(db[name], LAMBDA d : Matches(d, criteria))

nextObjectLast(cursor) == IF cursor = <<>> THEN <<>> ELSE <<cursor[Len(cursor)]>>

\* cursor.nextObject: the first document of the cursor, or none
nextObject(cursor) == IF cursor = <<>> THEN <<>> ELSE <<Head(cursor)>>

\* cursor.toArray
toArray(cursor) == cursor

OptionInputs ==
  {[k \in {k \in OptionKeys : full[k] # Absent} |-> full[k]] :
     full \in
       {[k \in OptionKeys |-> CASE k = "_id" -> id [] k = "filename" -> fn [] k = "root" -> rt] :
          id \in {Absent, Str(HexText(1)), ObjectID(HexText(2)), Str(<<"not-an-id">>), Str(<<>>)},
          fn \in {Absent, Str(<<"a.txt">>)},
          rt \in {Absent} \cup {Str(<<r>>) : r \in Roots}}}

NoCall ==
  [op |-> "none", name |-> Undefined, options |-> <<>>, hasCallback |-> TRUE,
   curColBefore |-> Undefined, colBefore |-> Undefined, collection |-> Undefined,
   criteria |-> <<>>, key |-> Undefined, root |-> Undefined, error |-> "",
   reply |-> <<>>, exists |-> FALSE]

Call(op, options) ==
  [NoCall EXCEPT !.op = op, !.options = options,
                 !.curColBefore = curCol, !.colBefore = _col]

\* Grid.prototype.collection, the new curCol
collectionCurCol(name) == Or(name, Or(curCol, DEFAULT_ROOT_COLLECTION))

\* Grid.prototype.collection(name): the new curCol and _col, _col returned
collection(name) ==
  LET cur == collectionCurCol(name)
  IN [curCol |-> cur, col |-> Collection(FilesName(cur)),
      returned |-> Collection(FilesName(cur))]

\* the getter of Grid.prototype.files
files_get ==
  IF Truthy(_col) THEN [curCol |-> curCol, col |-> _col, returned |-> _col]
  ELSE collection(Undefined)

\* the criteria of find and findOne: every option but root, _id parsed
findCriteria(options) ==
  LET find == [n \in DOMAIN options \ {"root"} |-> options[n]]
  IN IF Truthy(Get(find, "_id"))
     THEN [find EXCEPT !["_id"] = Or(tryParseObjectId(find["_id"]), find["_id"])]
     ELSE find

queryCollectionSwitchesDefault(options) ==
  IF Truthy(Get(options, "root")) THEN collection(Get(options, "root")) ELSE files_get

\* the collection find and findOne query: options.root + '.files' when root is
\* given and is not curCol, this.files otherwise
queryCollection(options) ==
  IF Truthy(Get(options, "root")) /\ Get(options, "root") # curCol
  THEN [curCol |-> curCol, col |-> _col,
        returned |-> Collection(FilesName(Get(options, "root")))]
  ELSE files_get

\* a call of grid.collection(name)
collectionCall ==
  /\ \E name \in {Undefined} \cup {Str(<<r>>) : r \in Roots} :
       LET c == collection(name)
       IN /\ curCol' = c.curCol
          /\ _col' = c.col
          /\ lastCall' = [Call("collection", <<>>) EXCEPT
                            !.name = name, !.collection = c.returned]
  /\ UNCHANGED <<db, cacheVars, streamVars>>

\* a read of grid.files
filesRead ==
  /\ LET c == files_get
     IN /\ curCol' = c.curCol
        /\ _col' = c.col
        /\ lastCall' = [Call("files", <<>>) EXCEPT !.collection = c.returned]
  /\ UNCHANGED <<db, cacheVars, streamVars>>

\* Grid.prototype.findOne
findOne ==
  /\ \E options \in OptionInputs, hasCallback \in BOOLEAN :
       IF ~hasCallback
       THEN /\ lastCall' = [Call("findOne", options) EXCEPT
                              !.hasCallback = FALSE,
                              !.error = "findOne requires a callback function"]
            /\ UNCHANGED <<curCol, _col>>
       ELSE LET criteria == findCriteria(options)
                c        == queryCollection(options)
            IN /\ curCol' = c.curCol
               /\ _col' = c.col
               /\ lastCall' =
                    IF ~Truthy(c.returned)
                    THEN [Call("findOne", options) EXCEPT
                            !.criteria = criteria, !.error = "No collection specified"]
                    ELSE [Call("findOne", options) EXCEPT
                            !.collection = c.returned,
                            !.criteria = criteria,
                            !.reply = nextObject(Cursor(Tail(c.returned), criteria))]
  /\ UNCHANGED <<db, cacheVars, streamVars>>

\* Grid.prototype.find
find ==
  /\ \E options \in OptionInputs, hasCallback \in BOOLEAN :
       IF ~hasCallback
       THEN /\ lastCall' = [Call("find", options) EXCEPT
                              !.hasCallback = FALSE,
                              !.error = "find requires a callback function"]
            /\ UNCHANGED <<curCol, _col>>
       ELSE LET criteria == findCriteria(options)
                c        == queryCollection(options)
            IN /\ curCol' = c.curCol
               /\ _col' = c.col
               /\ lastCall' =
                    IF ~Truthy(c.returned)
                    THEN [Call("find", options) EXCEPT
                            !.criteria = criteria, !.error = "No collection specified"]
                    ELSE [Call("find", options) EXCEPT
                            !.collection = c.returned,
                            !.criteria = criteria,
                            !.reply = toArray(Cursor(Tail(c.returned), criteria))]
  /\ UNCHANGED <<db, cacheVars, streamVars>>

existKeyFilenameFirst(options) ==
  IF Truthy(Get(options, "filename")) THEN Get(options, "filename")
  ELSE IF Truthy(Get(options, "_id"))
       THEN Or(tryParseObjectId(options["_id"]), options["_id"])
       ELSE Undefined

\* the key Grid.prototype.remove hands to GridStore.unlink
removeKey(options) ==
  LET id == IF Truthy(Get(options, "_id"))
            THEN Or(tryParseObjectId(options["_id"]), options["_id"])
            ELSE Undefined
  IN IF ~Truthy(id) THEN Get(options, "filename") ELSE id

\* the key Grid.prototype.exist hands to GridStore.exist
existKey(options) ==
  LET id == IF Truthy(Get(options, "_id"))
            THEN Or(tryParseObjectId(options["_id"]), options["_id"])
            ELSE Undefined
  IN IF ~Truthy(id) THEN Get(options, "filename") ELSE id

\* GridStore addresses a file by _id when the key is an ObjectID and by
\* filename otherwise, in root + '.files', root being 'fs' when not given
StoreCriteria(key) ==
  [k \in {IF key[1] = "ObjectID" THEN "_id" ELSE "filename"} |-> key]
StoreName(root) == FilesName(Or(root, DEFAULT_ROOT_COLLECTION))

\* Grid.prototype.remove: GridStore.unlink deletes the file the key names
remove ==
  \E options \in OptionInputs :
    LET key  == removeKey(options)
        name == StoreName(Get(options, "root"))
        hits == {i \in 1..Len(db[name]) : Matches(db[name][i], StoreCriteria(key))}
    IN /\ lastCall' = [Call("remove", options) EXCEPT
                         !.key = key, !.root = Get(options, "root")]
       /\ IF hits = {} THEN UNCHANGED db
          ELSE \E i \in hits :
                 db' = [db EXCEPT ![name] =
                          SubSeq(db[name], 1, i - 1) \o SubSeq(db[name], i + 1, Len(db[name]))]
       /\ UNCHANGED <<curCol, _col, cacheVars, streamVars>>

\* Grid.prototype.exist
exist ==
  \E options \in OptionInputs :
    LET key  == existKey(options)
        name == StoreName(Get(options, "root"))
    IN /\ lastCall' = [Call("exist", options) EXCEPT
                         !.key = key, !.root = Get(options, "root"),
                         !.exists = (\E i \in 1..Len(db[name]) :
                                        Matches(db[name][i], StoreCriteria(key)))]
       /\ UNCHANGED <<curCol, _col, db, cacheVars, streamVars>>

\* new Grid(db, mongo) over a database that already holds files
GridInit ==
  /\ curCol = DEFAULT_ROOT_COLLECTION
  /\ _col = Undefined
  /\ \E o \in StoreOrders :
       db = [n \in CollectionNames |->
               IF n = FilesName(DEFAULT_ROOT_COLLECTION)
               THEN [i \in DOMAIN o |-> Doc(o[i])]
               ELSE <<Doc(NumDocs + 1)>>]
  /\ lastCall = NoCall

GridIdle ==
  /\ curCol = DEFAULT_ROOT_COLLECTION
  /\ _col = Undefined
  /\ db = <<>>
  /\ lastCall = NoCall

(***************************************************************************)
(* Write and read sessions over the chunk store.  lib/index.js only         *)
(* constructs them (createWriteStream, createReadStream); the sessions      *)
(* themselves live in lib/writestream.js and lib/readstream.js and are      *)
(* modelled from their specification (sections 4.1, 4.2, 5 and 6).          *)
(***************************************************************************)
MaxLen       == 4
MaxChunkSize == 3

Bytes   == {0, 1}
FileIds == {"f1", "f2"}

ByteSeqs(n) == UNION {[1..k -> Bytes] : k \in 1..n}

NoFile == [exists |-> FALSE, length |-> 0, chunkSize |-> 0, checksum |-> 0]

\* the running digest over the bytes appended so far
RECURSIVE Digest(_, _)
Digest(acc, bytes) ==
  IF bytes = <<>> THEN acc
  ELSE Digest((acc * 31 + Head(bytes) + 1) % 251, Tail(bytes))

NoWriteSession ==
  [status |-> "None", error |-> "", fileId |-> "", chunkSize |-> 0,
   buffer |-> <<>>, bufferedLength |-> 0, nextSeq |-> 0, totalLength |-> 0,
   checksum |-> 0, step |-> "", written |-> <<>>]

\* WriteSession.open: chunkSize must be a positive integer
GridWriteStream(options) ==
  IF options.chunkSize <= 0
  THEN [NoWriteSession EXCEPT !.error = "InvalidArgument"]
  ELSE [NoWriteSession EXCEPT !.status = "Open", !.fileId = options._id,
                              !.chunkSize = options.chunkSize]

\* Grid.prototype.createWriteStream
createWriteStream(options) == GridWriteStream(options)

\* the greedy flush of write: while the buffer holds a whole chunk, persist
\* it; the put numbered failAt (from 1) ends in StoreError
RECURSIVE Flush(_, _, _, _)
Flush(buffer, size, stored, failAt) ==
  IF Len(buffer) < size
  THEN [buffer |-> buffer, stored |-> stored, failed |-> FALSE]
  ELSE IF failAt = 1
  THEN [buffer |-> buffer, stored |-> stored, failed |-> TRUE]
  ELSE Flush(SubSeq(buffer, size + 1, Len(buffer)), size,
             Append(stored, SubSeq(buffer, 1, size)), failAt - 1)

\* createWriteStream(options) by the producer
openWrite ==
  /\ ws.status = "None" /\ ws.error = ""
  /\ \E id \in FileIds, size \in 0..MaxChunkSize :
       ws' = createWriteStream([_id |-> id, chunkSize |-> size])
  /\ UNCHANGED <<rs, chunks, files, cacheVars, gridVars>>

\* WriteSession.write(bytes)
write ==
  /\ ws.status # "None"
  /\ IF ws.status # "Open"
     THEN /\ ws' = [ws EXCEPT !.error = "WriteAfterClose"]
          /\ UNCHANGED chunks
     ELSE \E bytes \in ByteSeqs(MaxLen - Len(ws.written)) :
          \E failAt \in 0..((Len(ws.buffer) + Len(bytes)) \div ws.chunkSize) :
            LET f == Flush(ws.buffer \o bytes, ws.chunkSize, chunks[ws.fileId], failAt)
            IN /\ chunks' = [chunks EXCEPT ![ws.fileId] = f.stored]
               /\ ws' = [ws EXCEPT
                    !.buffer = f.buffer,
                    !.bufferedLength = Len(f.buffer),
                    !.nextSeq = Len(f.stored),
                    !.totalLength = ws.totalLength + Len(bytes),
                    !.checksum = Digest(ws.checksum, bytes),
                    !.written = ws.written \o bytes,
                    !.status = IF f.failed THEN "Failed" ELSE "Open",
                    !.error = IF f.failed THEN "StoreError" ELSE ""]
  /\ UNCHANGED <<rs, files, cacheVars, gridVars>>

\* WriteSession.end(): Open -> Flushing, or WriteAfterClose
end ==
  /\ ws.status # "None"
  /\ ws' = IF ws.status # "Open"
           THEN [ws EXCEPT !.error = "WriteAfterClose"]
           ELSE [ws EXCEPT !.status = "Flushing", !.step = "remainder"]
  /\ UNCHANGED <<rs, chunks, files, cacheVars, gridVars>>

\* end(), continued: the remainder of the buffer becomes the last chunk
endRemainder ==
  /\ ws.status = "Flushing" /\ ws.step = "remainder"
  /\ IF ws.buffer = <<>>
     THEN /\ ws' = [ws EXCEPT !.step = "metadata"]
          /\ UNCHANGED chunks
     ELSE \E ok \in BOOLEAN :
            IF ok
            THEN /\ chunks' = [chunks EXCEPT ![ws.fileId] = Append(@, ws.buffer)]
                 /\ ws' = [ws EXCEPT !.buffer = <<>>, !.bufferedLength = 0,
                                     !.nextSeq = @ + 1, !.step = "metadata"]
            ELSE /\ ws' = [ws EXCEPT !.status = "Failed", !.error = "StoreError"]
                 /\ UNCHANGED chunks
  /\ UNCHANGED <<rs, files, cacheVars, gridVars>>

putMetadataAlways(ok) ==
  [files EXCEPT ![ws.fileId] =
     [exists |-> TRUE, length |-> ws.totalLength, chunkSize |-> ws.chunkSize,
      checksum |-> ws.checksum]]

\* ChunkStore.putMetadata of the session's record: written when the store
\* accepts it, not written on StoreError
putMetadata(ok) ==
  IF ok
  THEN [files EXCEPT ![ws.fileId] =
          [exists |-> TRUE, length |-> ws.totalLength, chunkSize |-> ws.chunkSize,
           checksum |-> ws.checksum]]
  ELSE files

\* end(), continued: the metadata record is persisted last; Closed on success,
\* Failed on a persistence failure
endMetadata ==
  /\ ws.status = "Flushing" /\ ws.step = "metadata"
  /\ \E ok \in BOOLEAN :
       /\ files' = putMetadata(ok)
       /\ ws' = IF ok THEN [ws EXCEPT !.status = "Closed", !.step = ""]
                ELSE [ws EXCEPT !.status = "Failed", !.error = "StoreError"]
  /\ UNCHANGED <<rs, chunks, cacheVars, gridVars>>

\* WriteSession.abort(): from Open or Flushing; the chunks written so far are
\* deleted when the store manages to
abort ==
  /\ ws.status \in {"Open", "Flushing"}
  /\ ws' = [ws EXCEPT !.status = "Failed"]
  /\ \E deleted \in BOOLEAN :
       chunks' = IF deleted THEN [chunks EXCEPT ![ws.fileId] = <<>>] ELSE chunks
  /\ UNCHANGED <<rs, files, cacheVars, gridVars>>

NoReadSession ==
  [status |-> "None", error |-> "", fileId |-> "", metadata |-> NoFile,
   rangeStart |-> 0, rangeEnd |-> 0, startSeq |-> 0, endSeq |-> 0,
   nextSeq |-> 0, emitted |-> <<>>, asked |-> <<>>]

\* an option that was not given
NotGiven == <<>>

\* ceil(a / b) for b > 0
CeilDiv(a, b) == (a + b - 1) \div b

\* ReadSession.open: resolve the metadata record, validate the range, compute
\* the chunk sequence numbers that cover it
GridReadStream(options) ==
  LET md == files[options._id]
      s  == options.rangeStart
      e  == IF options.rangeEnd = NotGiven THEN md.length ELSE options.rangeEnd[1]
  IN IF ~md.exists
     THEN [NoReadSession EXCEPT !.status = "Failed", !.error = "NotFound",
                                !.fileId = options._id]
     ELSE IF s < 0 \/ e > md.length \/ s > e
     THEN [NoReadSession EXCEPT !.status = "Failed", !.error = "InvalidRange",
                                !.fileId = options._id, !.metadata = md,
                                !.rangeStart = s, !.rangeEnd = e]
     ELSE [NoReadSession EXCEPT
             !.status = "Streaming", !.fileId = options._id, !.metadata = md,
             !.rangeStart = s, !.rangeEnd = e,
             !.startSeq = s \div md.chunkSize,
             !.endSeq = CeilDiv(e, md.chunkSize) - 1,
             !.nextSeq = s \div md.chunkSize]

createReadStreamWholeFile(options) ==
  GridReadStream([options EXCEPT !.rangeStart = 0, !.rangeEnd = NotGiven])

\* Grid.prototype.createReadStream
createReadStream(options) == GridReadStream(options)

\* createReadStream(options) by the consumer, once the write session is over
\* (reading an identifier that is being written is unsupported); asked keeps
\* the options of the call
openRead ==
  /\ rs.status = "None"
  /\ ws.status \in {"Closed", "Failed"}
  /\ \E id \in FileIds, s \in (-1)..MaxLen,
        e \in {NotGiven} \cup {<<n>> : n \in 0..(MaxLen + 1)} :
       LET options == [_id |-> id, rangeStart |-> s, rangeEnd |-> e]
       IN rs' = [createReadStream(options) EXCEPT !.asked = options]
  /\ UNCHANGED <<ws, chunks, files, cacheVars, gridVars>>

\* the payload of chunk seq cut to the range: the first chunk loses its first
\* rangeStart mod chunkSize bytes, the last one ends at the range's last byte
Trim(payload, seq) ==
  LET size == rs.metadata.chunkSize
      from == IF seq = rs.startSeq THEN rs.rangeStart % size ELSE 0
      to   == IF seq = rs.endSeq THEN rs.rangeEnd - seq * size ELSE Len(payload)
  IN SubSeq(payload, from + 1, to)

\* ReadSession.nextChunk()
nextChunk ==
  /\ rs.status = "Streaming"
  /\ rs' = IF rs.nextSeq > rs.endSeq
           THEN [rs EXCEPT !.status = "Done"]
           ELSE IF rs.nextSeq + 1 > Len(chunks[rs.fileId])
           THEN [rs EXCEPT !.status = "Failed", !.error = "MissingChunk"]
           ELSE [rs EXCEPT
                   !.emitted = @ \o Trim(chunks[rs.fileId][rs.nextSeq + 1], rs.nextSeq),
                   !.nextSeq = @ + 1]
  /\ UNCHANGED <<ws, chunks, files, cacheVars, gridVars>>

StreamInit ==
  /\ ws = NoWriteSession
  /\ rs = NoReadSession
  /\ chunks = [id \in FileIds |-> <<>>]
  /\ files = [id \in FileIds |-> NoFile]

StreamIdle == StreamInit

InitCache == CacheInit /\ GridIdle /\ StreamIdle
NextCache == setCacheControl
SpecCache == InitCache /\ [][NextCache]_vars

InitGrid == CacheIdle /\ GridInit /\ StreamIdle
NextGrid ==
  \/ collectionCall
  \/ filesRead
  \/ findOne
  \/ find
  \/ remove
  \/ exist
SpecGrid == InitGrid /\ [][NextGrid]_vars

InitStream == CacheIdle /\ GridIdle /\ StreamInit
NextStream ==
  \/ openWrite
  \/ write
  \/ end
  \/ endRemainder
  \/ endMetadata
  \/ abort
  \/ openRead
  \/ nextChunk
SpecStream == InitStream /\ [][NextStream]_vars

(***************************************************************************)
(* Claims about setCacheControl (SpecCache)                                *)
(***************************************************************************)
Returned == result.kind = "return"

CacheControlHeader == request.headers["cache-control"]
IfNoneMatchHeader  == request.headers["if-none-match"]

\* the cache-control header names directive d
HeaderContains(d) ==
  /\ CacheControlHeader # Undefined
  /\ \E i \in 1..Len(Text(CacheControlHeader)) : Text(CacheControlHeader)[i] = d

ServeCondition ==
  \/ CacheControlHeader = Undefined
  \/ HeaderContains("no-cache")
  \/ HeaderContains("private")
  \/ (IfNoneMatchHeader # Undefined /\ IfNoneMatchHeader # metadata.md5)

C2_Original ==
  (Returned /\ IfNoneMatchHeader = metadata.md5 /\ CacheControlHeader = Undefined)
    => result.status = 304

\* C2 (amended): if-none-match equal to the checksum and no cache-control
\* header gives 200, the missing cache-control header deciding alone.
C2_NoCacheControlServes ==
  (Returned /\ IfNoneMatchHeader = metadata.md5 /\ CacheControlHeader = Undefined)
    => result.status = 200

C2_Witness ==
  /\ Returned
  /\ IfNoneMatchHeader = metadata.md5
  /\ CacheControlHeader = Undefined
  /\ result.status = 200

\* the HTTP date (IMF-fixdate) of an instant of 1 January 1970, whole seconds
HttpDate(ms) ==
  LET s == ms \div 1000
  IN <<"Thu,", "01", "Jan", "1970",
       Pad2(s \div 3600) \o ":" \o Pad2((s \div 60) % 60) \o ":" \o Pad2(s % 60),
       "GMT">>

\* C7: whenever setCacheControl returns, the response carries ETag = checksum,
\* Last-Modified = uploadDate as an HTTP date, Cache-Control: public,
\* max-age=0, Pragma: public and Accept-Ranges: bytes; Content-Type is set to
\* metadata.contentType exactly when the status is 200, and a 304 leaves
\* Content-Type as it was.
C7_HeadersOnReturn ==
  Returned =>
    /\ response.headers["ETag"] = metadata.md5
    /\ Text(response.headers["Last-Modified"]) = HttpDate(metadata.uploadDate[2])
    /\ response.headers["Cache-Control"] = Str(<<"public", ",", " ", "max-age=0">>)
    /\ response.headers["Pragma"] = Str(<<"public">>)
    /\ response.headers["Accept-Ranges"] = Str(<<"bytes">>)
    /\ result.status = 200 => response.headers["Content-Type"] = metadata.contentType
    /\ result.status = 304 =>
         response.headers["Content-Type"] = priorHeaders["Content-Type"]

\* a 304 on a response that already carried a Content-Type
C7_Witness ==
  /\ Returned
  /\ result.status = 304
  /\ priorHeaders["Content-Type"] = Str(<<"text/html">>)
  /\ response.headers["Last-Modified"] = Str(HttpDate(3723004))

InvalidArguments ==
  \/ ~metadata.present
  \/ ~request.present
  \/ ~response.present
  \/ metadata.md5 = Undefined
  \/ metadata.uploadDate = Undefined
  \/ metadata.contentType = Undefined

\* C9: setCacheControl throws, and leaves the response as it was, whenever
\* metadata, request or response is missing or metadata lacks md5, uploadDate
\* or contentType; headers are written only when both validations passed.
C9_ThrowsBeforeHeaders ==
  result.kind # "pending" =>
    /\ InvalidArguments => (result.kind = "throw" /\ response.headers = priorHeaders)
    /\ response.headers # priorHeaders => (Returned /\ ~InvalidArguments)

\* all three arguments given, the metadata without its md5
C9_Witness ==
  /\ result.kind = "throw"
  /\ metadata.present /\ request.present /\ response.present
  /\ metadata.md5 = Undefined
  /\ metadata.uploadDate # Undefined
  /\ priorHeaders["Content-Type"] = Str(<<"text/html">>)

(***************************************************************************)
(* Claims about the Grid object (SpecGrid)                                 *)
(***************************************************************************)
Answered(op) == lastCall.op = op /\ lastCall.error = ""

\* the documents of the queried collection that the criteria select
Selected ==
  IF lastCall.collection = Undefined THEN <<>>
  ELSE SelectSeq(db[Tail(lastCall.collection)],
                 LAMBDA d : Matches(d, lastCall.criteria))

MostRecent(docs) ==
  CHOOSE d \in {docs[i] : i \in DOMAIN docs} :
    \A i \in DOMAIN docs : docs[i]["uploadDate"][2] <= d["uploadDate"][2]

\* C5 (as stated): when the selection matches more than one file record,
\* findOne returns the one with the most recent uploadDate, whatever order the
\* store returns the matches in.
C5_Original ==
  (Answered("findOne") /\ Len(Selected) > 1)
    => lastCall.reply = <<MostRecent(Selected)>>

\* C5 (amended): when the selection matches more than one file record, findOne
\* returns the first match in the order the store returns them.
C5_FirstInStoreOrder ==
  (Answered("findOne") /\ Len(Selected) > 1)
    => lastCall.reply = <<Selected[1]>>

\* two files share the filename and the store returns the older one first
C5_Witness ==
  /\ Answered("findOne")
  /\ Len(Selected) > 1
  /\ DOMAIN lastCall.criteria = {"filename"}
  /\ lastCall.reply # <<MostRecent(Selected)>>

\* C6: collection(name) makes name the default root; collection() with no
\* name makes the default root "fs" the default; in both cases the returned
\* and cached files collection is "<root>.files" for that root.
C6_Original ==
  lastCall.op = "collection" =>
    LET root == IF lastCall.name = Undefined THEN DEFAULT_ROOT_COLLECTION
                ELSE lastCall.name
    IN /\ curCol = root
       /\ _col = Collection(Text(root) \o <<".files">>)
       /\ lastCall.collection = _col

\* the key the claim describes: the parsed _id, the raw _id when it does not
\* parse, the filename when _id is absent or falsy
C8_Key(options) ==
  LET id == Get(options, "_id")
  IN IF id = Undefined \/ id = Str(<<>>) THEN Get(options, "filename")
     ELSE IF ObjectIDThrows(id) THEN id
     ELSE ObjectID(Tail(id))

\* C8: remove and exist resolve the file key the same way: the ObjectID parse
\* of options._id when it parses, the raw options._id when it does not, and
\* options.filename only when options._id is absent or falsy.
C8_KeyResolution ==
  lastCall.op \in {"remove", "exist"} => lastCall.key = C8_Key(lastCall.options)

\* exist with an _id that does not parse and a filename: the raw _id is the key
C8_Witness ==
  /\ lastCall.op = "exist"
  /\ Get(lastCall.options, "_id") = Str(<<"not-an-id">>)
  /\ Get(lastCall.options, "filename") = Str(<<"a.txt">>)
  /\ lastCall.key = Str(<<"not-an-id">>)

\* C10: _col, whenever set, is the collection "<curCol>.files"; find and
\* findOne never change curCol; called with options.root different from curCol
\* they query "<options.root>.files" without changing curCol or _col, and root
\* is never one of the query criteria.
C10_CachedCollection ==
  /\ _col # Undefined => _col = Collection(Text(curCol) \o <<".files">>)
  /\ (lastCall.op \in {"find", "findOne"}) =>
       /\ curCol = lastCall.curColBefore
       /\ "root" \notin DOMAIN lastCall.criteria
       /\ (/\ lastCall.hasCallback
           /\ "root" \in DOMAIN lastCall.options
           /\ lastCall.options["root"] # lastCall.curColBefore) =>
            /\ lastCall.collection =
                 Collection(Text(lastCall.options["root"]) \o <<".files">>)
            /\ _col = lastCall.colBefore

\* find on another root while "alt" is the default and cached
C10_Witness ==
  /\ lastCall.op = "find"
  /\ lastCall.hasCallback
  /\ curCol = Str(<<"alt">>)
  /\ _col = Collection(<<"alt", ".files">>)
  /\ Get(lastCall.options, "root") = Str(<<"fs">>)
  /\ lastCall.collection = Collection(<<"fs", ".files">>)

=============================================================================
